---- MODULE Spec2Model ----
(***************************************************************************)
(* Model of xlsx_to_sql(): the conversion of a workbook (one worksheet per *)
(* table) into a SQL script and a reconciled mapping document.             *)
(*                                                                         *)
(* Text that the code only carries around (table names, field names, type  *)
(* names, messages) is a TLA+ string.  Text that the code converts (cell   *)
(* values passed to int() and str(), SQL literals) is a sequence of        *)
(* one-character strings, so that the conversions are computed.            *)
(* The SQL script is the sequence of the statements appended to it; a      *)
(* statement is a record holding the parts the code formats into its text. *)
(*                                                                         *)
(* The workbook is read as the run goes: each action that reads a cell, a  *)
(* row or a worksheet chooses it and records it in workbook.               *)
(*                                                                         *)
(*   Spec         runs on workbooks whose worksheets have a header only,   *)
(*                with every mapping document of Descriptions;             *)
(*   SpecRecords  runs on workbooks with data rows;                        *)
(*   SpecRows     the data rows of one worksheet, with cell values of      *)
(*                every kind.                                              *)
(***************************************************************************)
EXTENDS Integers, Sequences, FiniteSets, TLC

VARIABLES
  pc,                           \* position of the run in xlsx_to_sql()
  DISPLAY_WARNINGS,             \* not args.suppress_warnings
  description,                  \* workbook.properties.description, decoded
  workbook,                     \* the worksheets read so far (input)
  mapping_original,
  tables_without_mapping_data,
  table_mappings_preserved,
  mapping_new,
  sql_script,
  table_name,
  fields,
  field_metadata,
  mapping_fields,
  warnings,                     \* lines printed by log_warning, in order
  error,                        \* message of the exception that ended the run
  sql_file,                     \* content of OUTPUT_SQL_FILE
  yaml_file                     \* content of OUTPUT_YAML_FILE

vars == <<pc, DISPLAY_WARNINGS, description, workbook, mapping_original,
          tables_without_mapping_data, table_mappings_preserved, mapping_new,
          sql_script, table_name, fields, field_metadata, mapping_fields,
          warnings, error, sql_file, yaml_file>>

(***************************************************************************)
(* Bounds of the explored inputs.                                          *)
(***************************************************************************)
MaxSheets == 2        \* worksheets in the workbook (their titles differ)
MaxHeaderCells == 3   \* header cells in the whole workbook
MaxDataRows == 2      \* data rows in the whole workbook
MaxRichRows == 1      \* data rows of the worksheet of SpecRows

(***************************************************************************)
(* Cell values, as openpyxl hands them over.                               *)
(***************************************************************************)
None == [k |-> "none"]
Str(s) == [k |-> "str", s |-> s]
IntVal(n) == [k |-> "int", n |-> n]
Float(t) == [k |-> "float", tenths |-> t]     \* the number t / 10
Bool(b) == [k |-> "bool", b |-> b]

Digits == <<"0", "1", "2", "3", "4", "5", "6", "7", "8", "9">>

IsDigit(c) == \E i \in 1..10 : Digits[i] = c

DigitVal(c) == (CHOOSE i \in 1..10 : Digits[i] = c) - 1

\* Python truth value of a cell value (bool(value)).
Truthy(v) ==
  CASE v.k = "none" -> FALSE
    [] v.k = "str" -> Len(v.s) > 0
    [] v.k = "int" -> v.n # 0
    [] v.k = "float" -> v.tenths # 0
    [] v.k = "bool" -> v.b

RECURSIVE LStrip(_)
LStrip(s) == IF s # <<>> /\ s[1] = " " THEN LStrip(Tail(s)) ELSE s

RECURSIVE RStrip(_)
RStrip(s) ==
  IF s # <<>> /\ s[Len(s)] = " " THEN RStrip(SubSeq(s, 1, Len(s) - 1)) ELSE s

\* The digits of a decimal literal body: digits, single underscores between.
ValidDigits(b) ==
  /\ Len(b) > 0
  /\ IsDigit(b[1])
  /\ IsDigit(b[Len(b)])
  /\ \A i \in 1..Len(b) : IsDigit(b[i]) \/ b[i] = "_"
  /\ \A i \in 1..(Len(b) - 1) : ~(b[i] = "_" /\ b[i + 1] = "_")

RECURSIVE DigitsValue(_, _)
DigitsValue(b, acc) ==
  IF b = <<>> THEN acc
  ELSE IF b[1] = "_" THEN DigitsValue(Tail(b), acc)
  ELSE DigitsValue(Tail(b), 10 * acc + DigitVal(b[1]))

\* int(s) for a str s: [ok |-> FALSE] stands for ValueError.
IntOfStr(s) ==
  LET t == RStrip(LStrip(s))
      signed == t # <<>> /\ t[1] \in {"+", "-"}
      body == IF signed THEN Tail(t) ELSE t
      mag == DigitsValue(body, 0)
  IN IF ValidDigits(body)
     THEN [ok |-> TRUE, n |-> IF signed /\ t[1] = "-" THEN 0 - mag ELSE mag]
     ELSE [ok |-> FALSE, n |-> 0]

\* int(v): a str is parsed, a float is truncated toward zero, a bool is 0/1.
PyInt(v) ==
  CASE v.k = "str" -> IntOfStr(v.s)
    [] v.k = "int" -> [ok |-> TRUE, n |-> v.n]
    [] v.k = "float" ->
         [ok |-> TRUE,
          n |-> IF v.tenths >= 0 THEN v.tenths \div 10
                ELSE 0 - ((0 - v.tenths) \div 10)]
    [] v.k = "bool" -> [ok |-> TRUE, n |-> IF v.b THEN 1 ELSE 0]
    [] v.k = "none" -> [ok |-> FALSE, n |-> 0]

RECURSIVE NatToStr(_)
NatToStr(n) ==
  IF n < 10 THEN <<Digits[n + 1]>>
  ELSE NatToStr(n \div 10) \o <<Digits[(n % 10) + 1]>>

\* str(n) for an int n.
IntToStr(n) == IF n < 0 THEN <<"-">> \o NatToStr(0 - n) ELSE NatToStr(n)

\* str(v)
PyStr(v) ==
  CASE v.k = "str" -> v.s
    [] v.k = "int" -> IntToStr(v.n)
    [] v.k = "float" ->
         LET a == IF v.tenths < 0 THEN 0 - v.tenths ELSE v.tenths
         IN (IF v.tenths < 0 THEN <<"-">> ELSE <<>>)
            \o NatToStr(a \div 10) \o <<".">> \o NatToStr(a % 10)
    [] v.k = "bool" ->
         IF v.b THEN <<"T", "r", "u", "e">> ELSE <<"F", "a", "l", "s", "e">>
    [] v.k = "none" -> <<"N", "o", "n", "e">>

(***************************************************************************)
(* Metadata in the comment of a header cell.  A comment text is a sequence *)
(* of tokens: pieces of plain text, or one JSON object (written as the     *)
(* value it decodes to).  The payloads considered are objects of the shape *)
(* {type, not_null, pk}.                                                   *)
(***************************************************************************)
Text(s) == [t |-> "text", s |-> s]
Json(v) == [t |-> "json", v |-> v]

COMMENT_PREFIX == <<Text("AUTOGENERATED, DO NOT EDIT!"), Text("\n")>>

DEFAULT_METADATA == [type |-> "VARCHAR(255)", not_null |-> FALSE, pk |-> 0]

NoComment == [present |-> FALSE]
Comment(text) == [present |-> TRUE, text |-> text]

Min(a, b) == IF a < b THEN a ELSE b

\* json.loads(suffix): [ok |-> FALSE] stands for JSONDecodeError.
JsonLoads(suffix) ==
  IF Len(suffix) = 1 /\ suffix[1].t = "json"
  THEN [ok |-> TRUE, value |-> suffix[1].v]
  ELSE [ok |-> FALSE, value |-> DEFAULT_METADATA]

\* Lines 101-114: the metadata of a header cell.
ExtractMetadata(cell) ==
  IF cell.comment.present
  THEN LET comment_text == cell.comment.text
           n == Len(COMMENT_PREFIX)
           prefix == SubSeq(comment_text, 1, Min(n, Len(comment_text)))
           suffix == SubSeq(comment_text, n + 1, Len(comment_text))
           decoded == JsonLoads(suffix)
       IN IF prefix # COMMENT_PREFIX
          THEN [error |-> "Comment verification failed",
                metadata |-> DEFAULT_METADATA, warn |-> FALSE]
          ELSE IF ~decoded.ok
          THEN [error |-> "JSONDecodeError",
                metadata |-> DEFAULT_METADATA, warn |-> FALSE]
          ELSE [error |-> "", metadata |-> decoded.value, warn |-> FALSE]
  ELSE [error |-> "", metadata |-> DEFAULT_METADATA, warn |-> TRUE]

(***************************************************************************)
(* Lines 121-153: the CREATE TABLE statement of a worksheet.               *)
(* primary_key_field is <<>> for None and <<name>> otherwise.              *)
(***************************************************************************)
PkTruthy(metadata) == metadata.pk # 0

\* A variant of AddFields without the check of lines 130-131: the last field
\* flagged pk becomes the primary key.
RECURSIVE AddFieldsLastWins(_, _, _, _)
AddFieldsLastWins(column, flds, fmeta, acc) ==
  IF column > Len(flds) THEN acc
  ELSE
    LET field_name == flds[column]
        metadata == fmeta[column]
        pkf == IF PkTruthy(metadata) THEN <<field_name>>
               ELSE acc.primary_key_field
        is_pk == pkf = <<field_name>>
        line == [name |-> field_name, quoted |-> ~is_pk,
                 type |-> metadata.type, not_null |-> metadata.not_null]
    IN AddFieldsLastWins(column + 1, flds, fmeta,
         [error |-> "",
          primary_key_field |-> pkf,
          columns |-> Append(acc.columns, line),
          mapping_fields |-> IF is_pk THEN acc.mapping_fields
                             ELSE Append(acc.mapping_fields, field_name)])

RECURSIVE AddFields(_, _, _, _)
AddFields(column, flds, fmeta, acc) ==
  IF column > Len(flds) \/ acc.error # "" THEN acc
  ELSE
    LET field_name == flds[column]
        metadata == fmeta[column]
        multiple == PkTruthy(metadata) /\ acc.primary_key_field # <<>>
        pkf == IF PkTruthy(metadata) THEN <<field_name>>
               ELSE acc.primary_key_field
        is_pk == pkf = <<field_name>>
        line == [name |-> field_name, quoted |-> ~is_pk,
                 type |-> metadata.type, not_null |-> metadata.not_null]
    IN IF multiple
       THEN [acc EXCEPT !.error = "multiple primary key fields detected!"]
       ELSE AddFields(column + 1, flds, fmeta,
              [error |-> "",
               primary_key_field |-> pkf,
               columns |-> Append(acc.columns, line),
               mapping_fields |-> IF is_pk THEN acc.mapping_fields
                                  ELSE Append(acc.mapping_fields, field_name)])

CreateTable(tname, flds, fmeta) ==
  LET r == AddFields(1, flds, fmeta,
             [error |-> "", primary_key_field |-> <<>>, columns |-> <<>>,
              mapping_fields |-> <<>>])
      err == IF r.error # "" THEN r.error
             ELSE IF r.primary_key_field = <<>>
             THEN "no primary key field detected!"
             ELSE ""
  IN [error |-> err,
      mapping_fields |-> r.mapping_fields,
      statement |-> [kind |-> "CREATE TABLE", table |-> tname,
                     columns |-> r.columns,
                     primary_key |-> r.primary_key_field,
                     closed |-> err = ""]]

(***************************************************************************)
(* Lines 156-184: the INSERT statement of a data row.  row_obj holds the   *)
(* cells of the row in all the columns of the worksheet; the cells of the  *)
(* fields are the first Len(fields) of them.                               *)
(***************************************************************************)
RowIsSkipped(row_obj) == ~ \E i \in 1..Len(row_obj) : Truthy(row_obj[i])

\* Lines 165-173: [ok |-> FALSE] stands for the ValueError of int().
CoerceValue(cell_value, target_type) ==
  LET value == IF cell_value = None THEN Str(<<>>) ELSE cell_value
  IN IF target_type = "INTEGER"
     THEN LET i == PyInt(value) IN [ok |-> i.ok, value |-> IntVal(i.n)]
     ELSE [ok |-> TRUE, value |-> Str(PyStr(value))]

\* Lines 180-181: the literal of a coerced value.
RenderValue(value) ==
  IF value.k = "str" THEN <<"'">> \o value.s \o <<"'">>
  ELSE PyStr(value)

InsertRecord(tname, flds, fmeta, row_obj) ==
  LET coerced == [c \in 1..Len(flds) |-> CoerceValue(row_obj[c], fmeta[c].type)]
      failed == \E c \in 1..Len(flds) : ~coerced[c].ok
  IN IF RowIsSkipped(row_obj)
     THEN [outcome |-> "skip", error |-> "", statement |-> <<>>]
     ELSE IF failed
     THEN [outcome |-> "error", error |-> "ValueError", statement |-> <<>>]
     ELSE [outcome |-> "insert", error |-> "",
           statement |-> [kind |-> "INSERT", table |-> tname,
                          values |-> [c \in 1..Len(flds) |->
                                        RenderValue(coerced[c].value)]]]

(***************************************************************************)
(* Lines 68-80 and 186-204: the mapping data.  A dictionary is a function  *)
(* on its keys.                                                            *)
(***************************************************************************)
RESERVED_KEY == "__cci_sql_xlsx_converter_tables_without_mapping_data__"

EmptyDict == [x \in {} |-> <<>>]

SetItem(d, key, value) ==
  [x \in DOMAIN d \cup {key} |-> IF x = key THEN value ELSE d[x]]

Pop(d, key) == [x \in DOMAIN d \ {key} |-> d[x]]

InList(x, list) == \E i \in 1..Len(list) : list[i] = x

BlockName(tname) == "Insert " \o tname

\* A variant of ParseMapping that reads the reserved list without removing
\* it from the mapping (get instead of pop at line 70).
ParseMappingKeepsList(descr) ==
  IF RESERVED_KEY \notin DOMAIN descr
  THEN [error |-> "Mapping data does not contain list of tables without mapping data",
        mapping_original |-> descr,
        tables_without_mapping_data |-> <<>>,
        table_mappings_preserved |-> EmptyDict]
  ELSE [error |-> "",
        mapping_original |-> descr,
        tables_without_mapping_data |-> descr[RESERVED_KEY],
        table_mappings_preserved |-> [block_name \in DOMAIN descr |-> FALSE]]

\* Lines 68-80.
ParseMapping(descr) ==
  IF RESERVED_KEY \notin DOMAIN descr
  THEN [error |-> "Mapping data does not contain list of tables without mapping data",
        mapping_original |-> descr,
        tables_without_mapping_data |-> <<>>,
        table_mappings_preserved |-> EmptyDict]
  ELSE [error |-> "",
        mapping_original |-> Pop(descr, RESERVED_KEY),
        tables_without_mapping_data |-> descr[RESERVED_KEY],
        table_mappings_preserved |->
          [block_name \in DOMAIN descr \ {RESERVED_KEY} |-> FALSE]]

\* A variant of BuildMapping that extends the 'fields' of the original entry
\* instead of replacing them (+= at line 191).
BuildMappingExtends(orig, without, preserved, new, tname, mfields) ==
  LET block_name == "Insert " \o tname
  IN IF block_name \in DOMAIN orig
     THEN LET entry == SetItem(orig[block_name], "fields",
                               orig[block_name].fields \o mfields)
          IN [mapping_original |-> SetItem(orig, block_name, entry),
              table_mappings_preserved |-> SetItem(preserved, block_name, TRUE),
              mapping_new |-> SetItem(new, block_name, entry),
              warn |-> FALSE]
     ELSE IF InList(tname, without)
     THEN [mapping_original |-> orig, table_mappings_preserved |-> preserved,
           mapping_new |-> new, warn |-> FALSE]
     ELSE [mapping_original |-> orig, table_mappings_preserved |-> preserved,
           mapping_new |-> SetItem(new, block_name,
                             [table |-> tname, fields |-> mfields]),
           warn |-> TRUE]

\* Lines 186-196.  The entry stored in mapping_new is the object of
\* mapping_original, so the assignment of 'fields' shows in both.
BuildMapping(orig, without, preserved, new, tname, mfields) ==
  LET block_name == BlockName(tname)
  IN IF block_name \in DOMAIN orig
     THEN LET entry == SetItem(orig[block_name], "fields", mfields)
          IN [mapping_original |-> SetItem(orig, block_name, entry),
              table_mappings_preserved |-> SetItem(preserved, block_name, TRUE),
              mapping_new |-> SetItem(new, block_name, entry),
              warn |-> FALSE]
     ELSE IF InList(tname, without)
     THEN [mapping_original |-> orig, table_mappings_preserved |-> preserved,
           mapping_new |-> new, warn |-> FALSE]
     ELSE [mapping_original |-> orig, table_mappings_preserved |-> preserved,
           mapping_new |-> SetItem(new, block_name,
                             [table |-> tname, fields |-> mfields]),
           warn |-> TRUE]

\* The keys of a dictionary in a fixed order.
RECURSIVE Keys(_)
Keys(S) ==
  IF S = {} THEN <<>>
  ELSE LET k == CHOOSE x \in S : TRUE IN <<k>> \o Keys(S \ {k})

Warning(kind, about, data) == [kind |-> kind, about |-> about, data |-> data]

\* Lines 202-204.
RECURSIVE OrphanWarnings(_, _, _)
OrphanWarnings(keys, orig, preserved) ==
  IF keys = <<>> THEN <<>>
  ELSE (IF ~preserved[keys[1]]
        THEN <<Warning("orphan", keys[1], orig[keys[1]])>>
        ELSE <<>>)
       \o OrphanWarnings(Tail(keys), orig, preserved)

\* log_warning
LogWarning(log, enabled, lines) == IF enabled THEN log \o lines ELSE log

(***************************************************************************)
(* The inputs explored.                                                    *)
(***************************************************************************)
Titles == {"Account", "Contact"}

FieldNames == {"Id", "Name"}

PkInteger == [type |-> "INTEGER", not_null |-> TRUE, pk |-> 1]
PkVarchar == [type |-> "VARCHAR(255)", not_null |-> TRUE, pk |-> 1]
IntegerColumn == [type |-> "INTEGER", not_null |-> FALSE, pk |-> 0]

Annotated(metadata) == Comment(COMMENT_PREFIX \o <<Json(metadata)>>)

HeaderComments ==
  { NoComment,
    Annotated(PkInteger),
    Comment(<<Text("EDITED BY HAND"), Text("\n"), Json(PkInteger)>>),
    Comment(COMMENT_PREFIX \o <<Text("{type: INTEGER")>>) }

MainValues == { None, IntVal(1) }

RichValues ==
  { None, IntVal(0), IntVal(7), Str(<<"4", "2">>), Str(<<"a">>),
    Float(37), Bool(TRUE) }

\* The rows of a worksheet with n fields: the cells of the fields, then one
\* cell of a column to the right of the header.
RowObjects(n, Vals, Beyond) ==
  { cells \o <<b>> : cells \in [1..n -> Vals], b \in Beyond }

MappingEntry(tname) ==
  [sf_object |-> tname, table |-> tname, fields |-> <<"Legacy">>]

TableOfBlock(block_name) == CHOOSE t \in Titles : BlockName(t) = block_name

\* Decoded descriptions: every combination of blocks with a list that is empty
\* or names "Account", and one description without the reserved key.
Descriptions ==
  { [x \in blocks \cup {RESERVED_KEY} |->
       IF x = RESERVED_KEY THEN without ELSE MappingEntry(TableOfBlock(x))] :
    blocks \in SUBSET { BlockName(t) : t \in Titles },
    without \in { <<>>, <<"Account">> } }
  \cup { [x \in {BlockName("Account")} |-> MappingEntry("Account")] }

\* The descriptions of the runs that read data rows.
RecordsDescriptions ==
  { [x \in {RESERVED_KEY} |-> <<>>],
    [x \in {BlockName("Account")} |-> MappingEntry("Account")] }

NotWritten == [written |-> FALSE]
Written(content) == [written |-> TRUE, content |-> content]

\* A variant of AppendStatement that puts the text in front of the script.
PrependStatement(script, statement) == <<statement>> \o script

\* sql_script += text
AppendStatement(script, statement) == Append(script, statement)

(***************************************************************************)
(* The run.                                                                *)
(***************************************************************************)
\* The state before line 65, for a workbook whose description is one of
\* descrs and a command line whose warnings switch is one of toggles.
Start(descrs, toggles) ==
  /\ pc = "load"
  /\ DISPLAY_WARNINGS \in toggles
  /\ description \in descrs
  /\ workbook = <<>>
  /\ mapping_original = EmptyDict
  /\ tables_without_mapping_data = <<>>
  /\ table_mappings_preserved = EmptyDict
  /\ mapping_new = EmptyDict
  /\ sql_script = <<>>
  /\ table_name = ""
  /\ fields = <<>>
  /\ field_metadata = <<>>
  /\ mapping_fields = <<>>
  /\ warnings = <<>>
  /\ error = ""
  /\ sql_file = NotWritten
  /\ yaml_file = NotWritten

Init == Start(Descriptions, BOOLEAN)

InitRecords == Start(RecordsDescriptions, {TRUE})

RECURSIVE SumLen(_, _)
SumLen(wb, part) ==
  IF wb = <<>> THEN 0 ELSE Len(wb[1][part]) + SumLen(Tail(wb), part)

HeaderCellsRead == SumLen(workbook, "header")
DataRowsRead == SumLen(workbook, "rows")

Current == Len(workbook)

\* Lines 65-83.
ParseMappingData ==
  /\ pc = "load"
  /\ LET r == ParseMapping(description)
     IN /\ mapping_original' = r.mapping_original
        /\ tables_without_mapping_data' = r.tables_without_mapping_data
        /\ table_mappings_preserved' = r.table_mappings_preserved
        /\ error' = r.error
        /\ IF r.error # ""
           THEN /\ pc' = "failed"
                /\ UNCHANGED sql_script
           ELSE /\ pc' = "worksheets"
                /\ sql_script' = AppendStatement(<<>>, [kind |-> "BEGIN TRANSACTION"])
  /\ mapping_new' = EmptyDict
  /\ UNCHANGED <<DISPLAY_WARNINGS, description, workbook, table_name, fields,
                 field_metadata, mapping_fields, warnings, sql_file, yaml_file>>

\* Lines 86-95: the next worksheet of the workbook.  The titles of the
\* worksheets of a workbook are distinct.
NextWorksheet ==
  /\ pc = "worksheets"
  /\ Len(workbook) < MaxSheets
  /\ \E title \in Titles \ { workbook[i].title : i \in 1..Len(workbook) } :
       /\ table_name' = title
       /\ workbook' = Append(workbook,
                        [title |-> title, header |-> <<>>, rows |-> <<>>])
  /\ fields' = <<>>
  /\ mapping_fields' = <<>>
  /\ field_metadata' = <<>>
  /\ pc' = "header"
  /\ UNCHANGED <<DISPLAY_WARNINGS, description, mapping_original,
                 tables_without_mapping_data, table_mappings_preserved,
                 mapping_new, sql_script, warnings, error, sql_file, yaml_file>>

\* Lines 96-118: one turn of the loop over the header cells.
HeaderCell ==
  /\ pc = "header"
  /\ HeaderCellsRead < MaxHeaderCells
  /\ \E field_name \in FieldNames, comment \in HeaderComments :
       LET cell == [value |-> field_name, comment |-> comment]
           m == ExtractMetadata(cell)
       IN /\ workbook' = [workbook EXCEPT ![Current].header = Append(@, cell)]
          /\ fields' = Append(fields, field_name)
          /\ error' = m.error
          /\ IF m.error # ""
             THEN /\ pc' = "failed"
                  /\ UNCHANGED <<field_metadata, warnings>>
             ELSE /\ pc' = "header"
                  /\ field_metadata' = Append(field_metadata, m.metadata)
                  /\ warnings' =
                       LogWarning(warnings, DISPLAY_WARNINGS /\ m.warn,
                                  <<Warning("no comment", field_name, <<>>)>>)
  /\ UNCHANGED <<DISPLAY_WARNINGS, description, mapping_original,
                 tables_without_mapping_data, table_mappings_preserved,
                 mapping_new, sql_script, table_name, mapping_fields,
                 sql_file, yaml_file>>

\* Lines 96 and 121-153: the header ends at an empty cell; CREATE TABLE.
CreateTableStatement ==
  /\ pc = "header"
  /\ LET r == CreateTable(table_name, fields, field_metadata)
     IN /\ sql_script' = AppendStatement(sql_script, r.statement)
        /\ mapping_fields' = r.mapping_fields
        /\ error' = r.error
        /\ pc' = IF r.error # "" THEN "failed" ELSE "records"
  /\ UNCHANGED <<DISPLAY_WARNINGS, description, workbook, mapping_original,
                 tables_without_mapping_data, table_mappings_preserved,
                 mapping_new, table_name, fields, field_metadata, warnings,
                 sql_file, yaml_file>>

\* Lines 156-184: one turn of the loop over the data rows.
Record(Vals, Beyond, cap) ==
  /\ pc = "records"
  /\ DataRowsRead < cap
  /\ \E row_obj \in RowObjects(Len(fields), Vals, Beyond) :
       LET r == InsertRecord(table_name, fields, field_metadata, row_obj)
       IN /\ workbook' = [workbook EXCEPT ![Current].rows = Append(@, row_obj)]
          /\ error' = r.error
          /\ pc' = IF r.outcome = "error" THEN "failed" ELSE "records"
          /\ sql_script' = IF r.outcome = "insert"
                           THEN AppendStatement(sql_script, r.statement)
                           ELSE sql_script
  /\ UNCHANGED <<DISPLAY_WARNINGS, description, mapping_original,
                 tables_without_mapping_data, table_mappings_preserved,
                 mapping_new, table_name, fields, field_metadata,
                 mapping_fields, warnings, sql_file, yaml_file>>

InsertRecords == Record(MainValues, {None}, MaxDataRows)

InsertRichRecords == Record(RichValues, {None, Str(<<"a">>)}, MaxRichRows)

\* Lines 186-196: after the last row of the worksheet.
NewMappingData ==
  /\ pc = "records"
  /\ LET r == BuildMapping(mapping_original, tables_without_mapping_data,
                           table_mappings_preserved, mapping_new,
                           table_name, mapping_fields)
     IN /\ mapping_original' = r.mapping_original
        /\ table_mappings_preserved' = r.table_mappings_preserved
        /\ mapping_new' = r.mapping_new
        /\ warnings' = LogWarning(warnings, DISPLAY_WARNINGS /\ r.warn,
                                  <<Warning("no mapping", table_name, <<>>)>>)
  /\ pc' = "worksheets"
  /\ UNCHANGED <<DISPLAY_WARNINGS, description, workbook,
                 tables_without_mapping_data, sql_script, table_name, fields,
                 field_metadata, mapping_fields, error, sql_file, yaml_file>>

\* Lines 198-204: after the last worksheet (a workbook has at least one).
EndScript ==
  /\ pc = "worksheets"
  /\ Len(workbook) >= 1
  /\ sql_script' = AppendStatement(sql_script, [kind |-> "COMMIT"])
  /\ warnings' = LogWarning(warnings, DISPLAY_WARNINGS,
                   OrphanWarnings(Keys(DOMAIN mapping_original),
                                  mapping_original, table_mappings_preserved))
  /\ pc' = "save_sql"
  /\ UNCHANGED <<DISPLAY_WARNINGS, description, workbook, mapping_original,
                 tables_without_mapping_data, table_mappings_preserved,
                 mapping_new, table_name, fields, field_metadata,
                 mapping_fields, error, sql_file, yaml_file>>

\* A variant of SaveSQL that writes the file on every turn of the loop over
\* the worksheets.
SaveSQLInLoop ==
  /\ pc = "worksheets"
  /\ sql_file # Written(sql_script)
  /\ sql_file' = Written(sql_script)
  /\ UNCHANGED <<pc, DISPLAY_WARNINGS, description, workbook,
                 mapping_original, tables_without_mapping_data,
                 table_mappings_preserved, mapping_new, sql_script,
                 table_name, fields, field_metadata, mapping_fields,
                 warnings, error, yaml_file>>

\* Lines 206-208.
SaveSQL ==
  /\ pc = "save_sql"
  /\ sql_file' = Written(sql_script)
  /\ pc' = "save_yaml"
  /\ UNCHANGED <<DISPLAY_WARNINGS, description, workbook, mapping_original,
                 tables_without_mapping_data, table_mappings_preserved,
                 mapping_new, sql_script, table_name, fields, field_metadata,
                 mapping_fields, warnings, error, yaml_file>>

\* Lines 210-212.
SaveYAML ==
  /\ pc = "save_yaml"
  /\ yaml_file' = Written(mapping_new)
  /\ pc' = "done"
  /\ UNCHANGED <<DISPLAY_WARNINGS, description, workbook, mapping_original,
                 tables_without_mapping_data, table_mappings_preserved,
                 mapping_new, sql_script, table_name, fields, field_metadata,
                 mapping_fields, warnings, error, sql_file>>

\* The runs on workbooks whose worksheets have a header row only.
Next ==
  \/ ParseMappingData
  \/ NextWorksheet
  \/ HeaderCell
  \/ CreateTableStatement
  \/ NewMappingData
  \/ EndScript
  \/ SaveSQL
  \/ SaveYAML

\* The runs on workbooks with data rows.
NextRecords == Next \/ InsertRecords

Spec == Init /\ [][Next]_vars

SpecRecords == InitRecords /\ [][NextRecords]_vars

(***************************************************************************)
(* The records of one worksheet, with cell values of every kind.  The run  *)
(* starts where the worksheet's CREATE TABLE statement has been appended.  *)
(***************************************************************************)
RichHeaders ==
  { <<[value |-> "Id", comment |-> Annotated(PkInteger)],
      [value |-> "Name", comment |-> NoComment]>>,
    <<[value |-> "Id", comment |-> Annotated(PkVarchar)],
      [value |-> "Qty", comment |-> Annotated(IntegerColumn)]>>,
    <<[value |-> "Id", comment |-> Annotated(PkInteger)]>> }

HeaderFields(header) == [c \in 1..Len(header) |-> header[c].value]

HeaderMetadata(header) ==
  [c \in 1..Len(header) |-> ExtractMetadata(header[c]).metadata]

RECURSIVE HeaderWarnings(_)
HeaderWarnings(header) ==
  IF header = <<>> THEN <<>>
  ELSE (IF ExtractMetadata(header[1]).warn
        THEN <<Warning("no comment", header[1].value, <<>>)>> ELSE <<>>)
       \o HeaderWarnings(Tail(header))

InitRows ==
  /\ pc = "records"
  /\ DISPLAY_WARNINGS \in BOOLEAN
  /\ description = [x \in {RESERVED_KEY} |-> <<>>]
  /\ \E header \in RichHeaders :
       LET created == CreateTable("Account", HeaderFields(header),
                                  HeaderMetadata(header))
       IN /\ workbook = <<[title |-> "Account", header |-> header,
                           rows |-> <<>>]>>
          /\ fields = HeaderFields(header)
          /\ field_metadata = HeaderMetadata(header)
          /\ mapping_fields = created.mapping_fields
          /\ sql_script =
               AppendStatement(
                 AppendStatement(<<>>, [kind |-> "BEGIN TRANSACTION"]),
                 created.statement)
          /\ warnings = LogWarning(<<>>, DISPLAY_WARNINGS,
                                   HeaderWarnings(header))
  /\ mapping_original = ParseMapping(description).mapping_original
  /\ tables_without_mapping_data =
       ParseMapping(description).tables_without_mapping_data
  /\ table_mappings_preserved =
       ParseMapping(description).table_mappings_preserved
  /\ mapping_new = EmptyDict
  /\ table_name = "Account"
  /\ error = ""
  /\ sql_file = NotWritten
  /\ yaml_file = NotWritten

NextRows ==
  \/ InsertRichRecords
  \/ NewMappingData
  \/ EndScript
  \/ SaveSQL
  \/ SaveYAML

SpecRows == InitRows /\ [][NextRows]_vars

(***************************************************************************)
(* The mapping document of a whole run on the worksheets sheets, with the  *)
(* decoded description descr: lines 68-80, then lines 186-196 once for     *)
(* each worksheet, with the mapping_fields of lines 127-140.               *)
(***************************************************************************)
RECURSIVE MappingOfSheets(_, _)
MappingOfSheets(sheets, st) ==
  IF sheets = <<>> THEN st
  ELSE LET created == CreateTable(sheets[1].title,
                                  HeaderFields(sheets[1].header),
                                  HeaderMetadata(sheets[1].header))
           r == BuildMapping(st.mapping_original,
                             st.tables_without_mapping_data,
                             st.table_mappings_preserved, st.mapping_new,
                             sheets[1].title, created.mapping_fields)
       IN MappingOfSheets(Tail(sheets),
            [mapping_original |-> r.mapping_original,
             tables_without_mapping_data |-> st.tables_without_mapping_data,
             table_mappings_preserved |-> r.table_mappings_preserved,
             mapping_new |-> r.mapping_new])

RunMapping(descr, sheets) ==
  LET parsed == ParseMapping(descr)
  IN IF parsed.error # ""
     THEN [error |-> parsed.error, mapping_new |-> EmptyDict]
     ELSE [error |-> "",
           mapping_new |->
             MappingOfSheets(sheets,
               [mapping_original |-> parsed.mapping_original,
                tables_without_mapping_data |->
                  parsed.tables_without_mapping_data,
                table_mappings_preserved |-> parsed.table_mappings_preserved,
                mapping_new |-> EmptyDict]).mapping_new]

(***************************************************************************)
(* Properties.  The worksheets, their header cells and their rows are the  *)
(* input, kept in workbook as it is read.                                  *)
(***************************************************************************)
Sheets == 1..Len(workbook)

\* The header fields whose decoded metadata has a truthy pk.
PkColumns(header) ==
  { c \in 1..Len(header) : HeaderMetadata(header)[c].pk # 0 }

CreateIndexes(title) ==
  { j \in 1..Len(sql_script) :
      sql_script[j].kind = "CREATE TABLE" /\ sql_script[j].table = title }

\* The Table Schema Builder has run on worksheet i.
SchemaBuilt(i) == CreateIndexes(workbook[i].title) # {}

CreateStatementOf(i) ==
  sql_script[CHOOSE j \in CreateIndexes(workbook[i].title) : TRUE]

SecondPk(header) ==
  CHOOSE c \in PkColumns(header) :
    Cardinality({ d \in PkColumns(header) : d < c }) = 1

\* C1: the schema of a worksheet is built only when exactly one header field
\* has a truthy pk: with none the run fails with "no primary key field
\* detected", with two or more it fails with "multiple primary key fields
\* detected" at the second of them, and every CREATE TABLE statement that is
\* completed names exactly one field, the pk field, in PRIMARY KEY.
C1_ExactlyOnePrimaryKey ==
  /\ \A i \in Sheets :
       SchemaBuilt(i) =>
         LET header == workbook[i].header
             pks == PkColumns(header)
             st == CreateStatementOf(i)
         IN /\ Cardinality(CreateIndexes(workbook[i].title)) = 1
            /\ pks = {} =>
                 /\ pc = "failed"
                 /\ error = "no primary key field detected!"
                 /\ ~st.closed
                 /\ st.primary_key = <<>>
            /\ Cardinality(pks) >= 2 =>
                 /\ pc = "failed"
                 /\ error = "multiple primary key fields detected!"
                 /\ ~st.closed
                 /\ Len(st.columns) = SecondPk(header) - 1
            /\ Cardinality(pks) = 1 =>
                 /\ st.closed
                 /\ st.primary_key = <<header[CHOOSE c \in pks : TRUE].value>>
            /\ st.closed => Cardinality(pks) = 1 /\ Len(st.primary_key) = 1
  /\ error \in { "no primary key field detected!",
                 "multiple primary key fields detected!" } =>
       Len(workbook) > 0 /\ SchemaBuilt(Len(workbook))

\* A second worksheet whose header has two pk fields, after a first worksheet
\* whose table was created.
C1_Witness ==
  /\ pc = "failed"
  /\ error = "multiple primary key fields detected!"
  /\ Len(workbook) = 2
  /\ CreateStatementOf(1).closed
  /\ Cardinality(PkColumns(workbook[2].header)) = 2

\* Every worksheet read so far has been processed to its end without error.
AllProcessed ==
  /\ error = ""
  /\ \A i \in Sheets : SchemaBuilt(i) /\ CreateStatementOf(i).closed
  /\ sql_script # <<>>
  /\ sql_script[Len(sql_script)].kind = "COMMIT"

\* C2: a run that ends with a fatal error, in any worksheet, has written
\* neither output file; the files are written only after all the worksheets
\* have been processed successfully, the SQL file first.
C2_NoOutputOnFailure ==
  /\ (pc = "failed") = (error # "")
  /\ pc = "failed" => sql_file = NotWritten /\ yaml_file = NotWritten
  /\ sql_file.written =>
       /\ pc \in {"save_yaml", "done"}
       /\ AllProcessed
       /\ sql_file.content = sql_script
  /\ yaml_file.written =>
       /\ pc = "done"
       /\ sql_file.written
       /\ yaml_file.content = mapping_new

\* An INTEGER cell that int() rejects, in the second worksheet.
C2_Witness ==
  /\ pc = "failed"
  /\ error = "ValueError"
  /\ Len(workbook) = 2
  /\ CreateStatementOf(1).closed
  /\ sql_file = NotWritten
  /\ yaml_file = NotWritten

\* The blocks of the original mapping document.
OriginalBlocks == DOMAIN description \ {RESERVED_KEY}

\* The names of the header fields whose pk is not truthy, in header order.
RECURSIVE NonPkFieldNames(_)
NonPkFieldNames(header) ==
  IF header = <<>> THEN <<>>
  ELSE (IF ExtractMetadata(header[1]).metadata.pk # 0 THEN <<>>
        ELSE <<header[1].value>>)
       \o NonPkFieldNames(Tail(header))

\* Worksheet i has gone through the Mapping Reconciler.
Reconciled(i) ==
  i < Len(workbook) \/ pc \in {"worksheets", "save_sql", "save_yaml", "done"}

\* C3 (as claimed): a table whose block key is in the original document has
\* an entry in the new document with the original attributes other than
\* 'fields', and with 'fields' equal to the names of the table's non-pk
\* fields in header order.
C3_RoundTrip ==
  \A i \in Sheets :
    LET key == "Insert " \o workbook[i].title
    IN (Reconciled(i) /\ key \in OriginalBlocks) =>
         /\ key \in DOMAIN mapping_new
         /\ DOMAIN mapping_new[key] = DOMAIN description[key] \cup {"fields"}
         /\ \A a \in DOMAIN description[key] \ {"fields"} :
              mapping_new[key][a] = description[key][a]
         /\ mapping_new[key].fields = NonPkFieldNames(workbook[i].header)

\* C4 (as claimed): a second run on the same worksheets, with the new
\* document of the first run as the original, succeeds and gives the same new
\* document.
C4_IdempotentOnNewDocument ==
  pc = "done" =>
    LET second == RunMapping(yaml_file.content, workbook)
    IN second.error = "" /\ second.mapping_new = yaml_file.content

\* C4 (amended): the new document of the first run lacks the reserved list,
\* so a second run on it stops with the missing-list error.  With the list of
\* the original document put back under the reserved key, the second run
\* succeeds and gives the same new document.
C4_IdempotentWithList ==
  pc = "done" =>
    LET bare == RunMapping(yaml_file.content, workbook)
        second == RunMapping(SetItem(yaml_file.content, RESERVED_KEY,
                                     description[RESERVED_KEY]),
                             workbook)
    IN /\ bare.error # ""
       /\ second.error = ""
       /\ second.mapping_new = yaml_file.content

\* A first run that carried an entry forward, created a default entry, or
\* left a table of the list without entry: two worksheets, one of them the
\* listed table, and an entry with the fields of a two-field table.
C4_Witness ==
  /\ pc = "done"
  /\ Len(workbook) = 2
  /\ "Insert Contact" \in OriginalBlocks
  /\ "Insert Account" \notin DOMAIN mapping_new
  /\ \E i \in Sheets :
       workbook[i].title = "Contact" /\ Len(workbook[i].header) = 2
  /\ Len(mapping_new["Insert Contact"].fields) = 1

\* All the worksheets have been processed.
Finished == pc \in {"save_sql", "save_yaml", "done"}

WarningsAbout(kind, about) ==
  { j \in 1..Len(warnings) :
      warnings[j].kind = kind /\ warnings[j].about = about }

\* C7 (as claimed): after the last worksheet the new document has an entry
\* under K exactly if K is the block key of a discovered table t and K is in
\* the original document or t is not in tables_without_mapping_data.  A
\* listed table without original entry gets no entry and no warning; a table
\* in neither gets the entry {table: t, fields: the names of its non-pk
\* fields} and a warning; a block key of the original document wins over the
\* list.
C7_NewDocumentEntries ==
  Finished =>
    LET without == description[RESERVED_KEY]
        key(i) == "Insert " \o workbook[i].title
    IN /\ \A K \in DOMAIN mapping_new \cup OriginalBlocks
                     \cup { key(i) : i \in Sheets } :
            K \in DOMAIN mapping_new <=>
              \E i \in Sheets :
                /\ K = key(i)
                /\ K \in OriginalBlocks \/ ~InList(workbook[i].title, without)
       /\ \A i \in Sheets :
            LET t == workbook[i].title
                unmapped == WarningsAbout("no mapping", t)
            IN /\ (key(i) \notin OriginalBlocks /\ InList(t, without)) =>
                    key(i) \notin DOMAIN mapping_new /\ unmapped = {}
               /\ (key(i) \notin OriginalBlocks /\ ~InList(t, without)) =>
                    /\ mapping_new[key(i)] =
                         [table |-> t,
                          fields |-> NonPkFieldNames(workbook[i].header)]
                    /\ DISPLAY_WARNINGS => Cardinality(unmapped) = 1
               /\ (key(i) \in OriginalBlocks /\ InList(t, without)) =>
                    key(i) \in DOMAIN mapping_new /\ unmapped = {}

\* C8: at the end, the consumed flag of a block key of the original document
\* is set exactly if a worksheet has the title of that block; an unconsumed
\* block is not in the new document and, with warnings enabled, has exactly
\* one orphan warning, which shows the original entry; no orphan warning is
\* about a consumed block or about the reserved key.
C8_OrphanedEntries ==
  Finished =>
    /\ DOMAIN table_mappings_preserved = OriginalBlocks
    /\ \A K \in OriginalBlocks :
         /\ table_mappings_preserved[K] <=>
              \E i \in Sheets : "Insert " \o workbook[i].title = K
         /\ ~table_mappings_preserved[K] =>
              /\ K \notin DOMAIN mapping_new
              /\ Cardinality(WarningsAbout("orphan", K)) =
                   IF DISPLAY_WARNINGS THEN 1 ELSE 0
              /\ \A j \in WarningsAbout("orphan", K) :
                   warnings[j].data = description[K]
         /\ table_mappings_preserved[K] => WarningsAbout("orphan", K) = {}
    /\ \A j \in 1..Len(warnings) :
         warnings[j].kind = "orphan" =>
           warnings[j].about \in OriginalBlocks

\* One block of the original document was consumed and the other orphaned.
C8_Witness ==
  /\ pc = "done"
  /\ DISPLAY_WARNINGS
  /\ \E K \in OriginalBlocks : table_mappings_preserved[K]
  /\ \E K \in OriginalBlocks :
       ~table_mappings_preserved[K] /\ WarningsAbout("orphan", K) # {}

\* What the script has of a statement: its keyword, its table, and for an
\* INSERT its values.
Shape(script) ==
  [j \in 1..Len(script) |->
     IF script[j].kind = "INSERT"
     THEN <<"INSERT", script[j].table, script[j].values>>
     ELSE IF script[j].kind = "CREATE TABLE"
     THEN <<"CREATE TABLE", script[j].table>>
     ELSE <<script[j].kind>>]

\* The INSERT statements of the retained rows of a worksheet, in row order.
RECURSIVE InsertsInRowOrder(_, _)
InsertsInRowOrder(sheet, rows) ==
  IF rows = <<>> THEN <<>>
  ELSE LET r == InsertRecord(sheet.title, HeaderFields(sheet.header),
                             HeaderMetadata(sheet.header), rows[1])
       IN (IF r.outcome = "insert"
           THEN << <<"INSERT", sheet.title, r.statement.values>> >>
           ELSE <<>>)
          \o InsertsInRowOrder(sheet, Tail(rows))

RECURSIVE TablesInSheetOrder(_)
TablesInSheetOrder(sheets) ==
  IF sheets = <<>> THEN <<>>
  ELSE << <<"CREATE TABLE", sheets[1].title>> >>
       \o InsertsInRowOrder(sheets[1], sheets[1].rows)
       \o TablesInSheetOrder(Tail(sheets))

\* C10: the script of a successful run is BEGIN TRANSACTION once, then for
\* each worksheet in order its CREATE TABLE followed by its INSERT statements
\* in row order, then COMMIT once; this is the text of the SQL file.
C10_ScriptOrder ==
  /\ Finished =>
       Shape(sql_script) =
         << <<"BEGIN TRANSACTION">> >> \o TablesInSheetOrder(workbook)
           \o << <<"COMMIT">> >>
  /\ sql_file.written => sql_file.content = sql_script

\* Two worksheets, the first with two different INSERT statements.
C10_Witness ==
  /\ pc = "done"
  /\ Len(workbook) = 2
  /\ Len(sql_file.content) = 6
  /\ sql_file.content[3].kind = "INSERT"
  /\ sql_file.content[4].kind = "INSERT"
  /\ sql_file.content[3] # sql_file.content[4]
  /\ sql_file.content[5].kind = "CREATE TABLE"

(***************************************************************************)
(* The Record Serializer, one data row at a time.                          *)
(***************************************************************************)
\* A step that reads one more data row of the current worksheet.
RowStep == pc = "records" /\ DataRowsRead' = DataRowsRead + 1

\* The data row read last.
LastRow == workbook[Current].rows[Len(workbook[Current].rows)]

\* The cells of the row in the columns of the fields are all empty.
FieldCellsEmpty(row) == \A c \in 1..Len(fields) : row[c] = None

\* The step left no INSERT statement and no error.
RowSkipped == sql_script' = sql_script /\ pc' # "failed"

\* The step appended exactly one INSERT statement of the current table.
RowInserted ==
  /\ pc' # "failed"
  /\ Len(sql_script') = Len(sql_script) + 1
  /\ SubSeq(sql_script', 1, Len(sql_script)) = sql_script
  /\ sql_script'[Len(sql_script')].kind = "INSERT"
  /\ sql_script'[Len(sql_script')].table = table_name

\* C5 (as claimed): a data row is skipped, without INSERT and without error,
\* exactly if all its cells in the columns of the fields are empty.
C5_SkipExactlyEmptyRows ==
  [][RowStep => (RowSkipped <=> FieldCellsEmpty(LastRow'))]_vars

\* C6 (as claimed): a data row with a non-empty cell (and no cell that
\* int() rejects for being something else than a number) gives exactly one
\* INSERT statement, in which every empty cell is the literal '' at the place
\* of its field, whatever the type of the field.
C6_EmptyCellsAsEmptyStrings ==
  [][(/\ RowStep
      /\ ~FieldCellsEmpty(LastRow')
      /\ \A c \in 1..Len(fields) :
           (field_metadata[c].type = "INTEGER" /\ LastRow'[c] # None) =>
             PyInt(LastRow'[c]).ok) =>
       /\ RowInserted
       /\ \A c \in 1..Len(fields) :
            LastRow'[c] = None =>
              sql_script'[Len(sql_script')].values[c] = <<"'", "'">>]_vars

\* A value that is an integer, or text made of an optional sign and digits.
IntegerParseable(v) == v.k = "int" \/ (v.k = "str" /\ IntOfStr(v.s).ok)

IntegerLiteral(v) == IntToStr(IF v.k = "int" THEN v.n ELSE IntOfStr(v.s).n)

QuotedText(v) == <<"'">> \o (IF v = None THEN <<>> ELSE PyStr(v)) \o <<"'">>

\* C9 (as claimed): in a retained row, an INTEGER cell that is
\* integer-parseable is a bare integer literal, an INTEGER cell that is not
\* ends the run with an error, and a cell of any other type is the text of
\* its value in single quotes.
C9_TypeCoercion ==
  [][(RowStep /\ ~RowSkipped) =>
       LET row == LastRow'
           integers == { c \in 1..Len(fields) :
                           field_metadata[c].type = "INTEGER" }
       IN IF \E c \in integers : ~IntegerParseable(row[c])
          THEN pc' = "failed" /\ sql_script' = sql_script
          ELSE /\ RowInserted
               /\ \A c \in 1..Len(fields) :
                    sql_script'[Len(sql_script')].values[c] =
                      IF c \in integers THEN IntegerLiteral(row[c])
                      ELSE QuotedText(row[c])]_vars

====
